---- MODULE Spec2Model ----
(***************************************************************************)
(* Session-state lifecycle of the orchestrator agent (rag/main_agent.py):  *)
(* the after-agent callback that scans the session's event history for the *)
(* latest search_corpus_by_name response and for a text matching           *)
(* "BOARD-grade-GRADE-SUBJECT. Question: QUESTION", merges what it found   *)
(* into session.state, and then mirrors the session to the memory service. *)
(***************************************************************************)
EXTENDS Integers, Sequences, FiniteSets, TLC

(***************************************************************************)
(* Texts are sequences of one-character strings.                           *)
(***************************************************************************)

\* "ICSE-grade-8-Science. Question: Why does ice float?"
TextICSE ==
  <<"I", "C", "S", "E", "-", "g", "r", "a", "d", "e", "-", "8", "-", "S", "c", "i", "e", "n", "c", "e", ".", " ", "Q", "u", "e", "s", "t", "i", "o", "n", ":", " ", "W", "h", "y", " ", "d", "o", "e", "s", " ", "i", "c", "e", " ", "f", "l", "o", "a", "t", "?">>

\* "CBSE-grade-10-Mathematics. Question: What is a fraction?"
TextCBSE ==
  <<"C", "B", "S", "E", "-", "g", "r", "a", "d", "e", "-", "1", "0", "-", "M", "a", "t", "h", "e", "m", "a", "t", "i", "c", "s", ".", " ", "Q", "u", "e", "s", "t", "i", "o", "n", ":", " ", "W", "h", "a", "t", " ", "i", "s", " ", "a", " ", "f", "r", "a", "c", "t", "i", "o", "n", "?">>

\* "Explain it with a story"
TextStory ==
  <<"E", "x", "p", "l", "a", "i", "n", " ", "i", "t", " ", "w", "i", "t", "h", " ", "a", " ", "s", "t", "o", "r", "y">>

\* "CBSE-grade-X-Math. Question: Sum?"
TextNoGrade ==
  <<"C", "B", "S", "E", "-", "g", "r", "a", "d", "e", "-", "X", "-", "M", "a", "t", "h", ".", " ", "Q", "u", "e", "s", "t", "i", "o", "n", ":", " ", "S", "u", "m", "?">>

\* The texts that parts of the modelled histories carry.  A part holds the
\* name of its text; TextOf gives the characters.
TextSet == {"ICSE", "CBSE", "Story", "NoGrade"}

TextOf(name) ==
  CASE name = "ICSE" -> TextICSE
    [] name = "CBSE" -> TextCBSE
    [] name = "Story" -> TextStory
    [] name = "NoGrade" -> TextNoGrade

(***************************************************************************)
(* re.search(r'([A-Za-z]+)-grade-(\d+)-([A-Za-z]+)\.\s*Question:\s*(.+)',  *)
(*           text, re.IGNORECASE)                                          *)
(***************************************************************************)
UpperSeq ==
  <<"A", "B", "C", "D", "E", "F", "G", "H", "I", "J", "K", "L", "M", "N", "O", "P", "Q", "R", "S", "T", "U", "V", "W", "X", "Y", "Z">>

LowerSeq ==
  <<"a", "b", "c", "d", "e", "f", "g", "h", "i", "j", "k", "l", "m", "n", "o", "p", "q", "r", "s", "t", "u", "v", "w", "x", "y", "z">>

\* [A-Za-z]
Letters == {UpperSeq[i] : i \in 1..26} \cup {LowerSeq[i] : i \in 1..26}

\* mutant: the grade group accepts letters as well
DigitsOrLetters == {"0", "1", "2", "3", "4", "5", "6", "7", "8", "9"} \cup Letters

\* \d
Digits == {"0", "1", "2", "3", "4", "5", "6", "7", "8", "9"}

\* \s
Whitespace == {" ", "\t", "\n", "\r"}

\* Case folding of re.IGNORECASE.
Lower(c) ==
  IF \E i \in 1..26 : UpperSeq[i] = c
  THEN LowerSeq[CHOOSE i \in 1..26 : UpperSeq[i] = c]
  ELSE c

\* The literal "-grade-" of the pattern.
GradeLit == <<"-", "g", "r", "a", "d", "e", "-">>

\* The literal "Question:" of the pattern.
QuestionLit == <<"Q", "u", "e", "s", "t", "i", "o", "n", ":">>

\* The literal lit occurs in t at position i, ignoring case.
LitAt(t, i, lit) ==
  /\ i >= 1
  /\ i + Len(lit) - 1 <= Len(t)
  /\ \A k \in 1..Len(lit) : Lower(t[i + k - 1]) = Lower(lit[k])

RECURSIVE RunEnd(_, _, _)
\* Greedy run: the position after the longest run of characters of class S
\* that starts at position i (i itself when there is none).
RunEnd(t, i, S) ==
  IF i > Len(t) THEN i
  ELSE IF t[i] \notin S THEN i
  ELSE RunEnd(t, i + 1, S)

RECURSIVE DotEnd(_, _)
\* Greedy run of '.', which matches anything but a newline.
DotEnd(t, i) ==
  IF i > Len(t) THEN i
  ELSE IF t[i] = "\n" THEN i
  ELSE DotEnd(t, i + 1)

\* mutant: group 4 is stored as matched, without .strip()
StripOmitted(s) == s

\* str.strip(): drop leading and trailing whitespace.
Strip(s) ==
  LET keep == {i \in 1..Len(s) : s[i] \notin Whitespace}
  IN  IF keep = {} THEN <<>>
      ELSE LET lo == CHOOSE i \in keep : \A j \in keep : i <= j
               hi == CHOOSE i \in keep : \A j \in keep : i >= j
           IN  SubSeq(s, lo, hi)

NoMatch ==
  [found |-> FALSE, start |-> 0, board |-> <<>>, grade |-> <<>>, subject |-> <<>>,
   question |-> <<>>]

\* ([A-Za-z]+)-grade- from position i: the position after group 1
Group1Ends(t, i) ==
  {b \in {RunEnd(t, i, Letters)} : b > i /\ LitAt(t, b, GradeLit)}

\* (\d+)- after "-grade-", which starts at b: the position after group 2
Group2Ends(t, b) ==
  {g \in {RunEnd(t, b + Len(GradeLit), Digits)} :
     g > b + Len(GradeLit) /\ g <= Len(t) /\ t[g] = "-"}

\* ([A-Za-z]+)\. after the "-" at g: the position after group 3
Group3Ends(t, g) ==
  {e \in {RunEnd(t, g + 1, Letters)} : e > g + 1 /\ e <= Len(t) /\ t[e] = "."}

\* \s*Question: after the "." at e: the position after the ":"
QuestionEnds(t, e) ==
  {q + Len(QuestionLit) : q \in {x \in {RunEnd(t, e + 1, Whitespace)} : LitAt(t, x, QuestionLit)}}

\* \s*(.+) from position k: where group 4 starts.  The greedy \s* gives
\* characters back until (.+) can take at least one character.
Group4Starts(t, k) ==
  LET starts == {p \in k..RunEnd(t, k, Whitespace) : p <= Len(t) /\ t[p] # "\n"}
  IN  {p \in starts : \A y \in starts : p >= y}

\* An attempt to match the pattern with the match starting at position i.
MatchAt(t, i) ==
  LET ms ==
        UNION { UNION { UNION { UNION {
          { [found    |-> TRUE,
             start    |-> i,
             board    |-> SubSeq(t, i, b - 1),
             grade    |-> SubSeq(t, b + Len(GradeLit), g - 1),
             subject  |-> SubSeq(t, g + 1, e - 1),
             question |-> Strip(SubSeq(t, p, DotEnd(t, p) - 1))] :
            p \in Group4Starts(t, k) } :
              k \in QuestionEnds(t, e) } :
                e \in Group3Ends(t, g) } :
                  g \in Group2Ends(t, b) } :
                    b \in Group1Ends(t, i) }
  IN  IF ms = {} THEN NoMatch ELSE CHOOSE m \in ms : TRUE

RECURSIVE SearchFrom(_, _)
\* the scan of re.search: the first position from i on where a match starts
SearchFrom(t, i) ==
  IF i > Len(t) THEN NoMatch
  ELSE IF MatchAt(t, i).found THEN MatchAt(t, i)
  ELSE SearchFrom(t, i + 1)

\* re.search: the match at the leftmost position where one exists.
Search(t) == SearchFrom(t, 1)

\* The search results of the texts of the model, computed once.
SearchTable == [name \in TextSet |-> Search(TextOf(name))]

(***************************************************************************)
(* Retrieval responses (the value of func_response.response).  A response  *)
(* is None or a mapping; keys is the set of keys of the mapping.           *)
(***************************************************************************)
Result(t) == [text |-> t]

Response(ks, rs, st) == [isNone |-> FALSE, keys |-> ks, results |-> rs, status |-> st]

\* {"results": [2 results], "status": "success"}
RespTwo ==
  Response({"results", "status"},
           <<Result(<<"i", "c", "e">>), Result(<<"f", "l", "o", "a", "t">>)>>,
           "success")

\* {"results": [5 results], "status": "success"}
RespFive ==
  Response({"results", "status"},
           <<Result(<<"a", "b">>), Result(<<"c", "d">>), Result(<<"e", "f">>),
             Result(<<"g", "h">>), Result(<<"i", "j">>)>>,
           "success")

\* {"status": "error", "error_message": ...}: a response without results
RespErr == Response({"status", "error_message"}, <<>>, "error")

\* what a tool other than the retrieval tool returned
RespOther == Response({"results", "status"}, <<Result(<<"m", "e", "m">>)>>, "success")

\* {}
RespEmpty == Response({}, <<>>, "")

\* None
RespNone == [isNone |-> TRUE, keys |-> {}, results |-> <<>>, status |-> ""]

\* Python truthiness of a response: None and the empty mapping are falsy.
Truthy(r) == ~r.isNone /\ r.keys # {}

(***************************************************************************)
(* Parts and events of session.events.  hasFR / hasText say whether the    *)
(* part object has the attribute at all (hasattr); frNone / textNone say   *)
(* that the attribute exists and is None.                                  *)
(***************************************************************************)
Part(hfr, frn, nm, hresp, resp, htx, txn, tx) ==
  [hasFR |-> hfr, frNone |-> frn, name |-> nm, hasResponse |-> hresp,
   response |-> resp, hasText |-> htx, textNone |-> txn, text |-> tx]

\* an object that only has a text attribute
TextPart(t) == Part(FALSE, FALSE, "", FALSE, RespNone, TRUE, FALSE, t)

\* a text part whose function_response attribute exists and is None
TextPartNullFR(t) == Part(TRUE, TRUE, "", FALSE, RespNone, TRUE, FALSE, t)

\* an object that only has a function_response attribute
FRPart(nm, resp) == Part(TRUE, FALSE, nm, TRUE, resp, FALSE, FALSE, "")

\* a function-response part whose text attribute exists and is None
FRPartNullText(nm, resp) == Part(TRUE, FALSE, nm, TRUE, resp, TRUE, TRUE, "")

\* event.content is None (or the event has no content attribute)
EvNoContent == [hasContent |-> FALSE, parts |-> <<>>]

Event(ps) == [hasContent |-> TRUE, parts |-> ps]

SearchTool == "search_corpus_by_name"

\* a user message that matches the template
EvUserICSE == Event(<<TextPart("ICSE")>>)
EvUserCBSE == Event(<<TextPart("CBSE")>>)

\* a user message that does not match it (the grade is not a number)
EvUserNoGrade == Event(<<TextPart("NoGrade")>>)

\* a text-only part whose function_response attribute is None
EvModelText == Event(<<TextPartNullFR("Story")>>)

\* responses of the retrieval tool
EvRespTwo == Event(<<FRPart(SearchTool, RespTwo)>>)

\* an error response and a second retrieval response in the same event
EvRespErr == Event(<<FRPart(SearchTool, RespErr), FRPart(SearchTool, RespTwo)>>)

\* the response of another tool, then a retrieval response
EvToolsFive == Event(<<FRPart("load_memory", RespOther), FRPart(SearchTool, RespFive)>>)

\* an empty retrieval response
EvRespEmpty == Event(<<FRPart(SearchTool, RespEmpty)>>)

\* a retrieval response in a part whose text attribute is None
EvRespNullText == Event(<<FRPartNullText(SearchTool, RespTwo)>>)

\* The events the host runtime may append to session.events.
EventSet ==
  {EvUserICSE, EvUserCBSE, EvUserNoGrade, EvModelText, EvRespTwo, EvRespErr,
   EvToolsFive, EvRespEmpty, EvRespNullText, EvNoContent}

(***************************************************************************)
(* The reverse scan for the latest search_corpus_by_name response          *)
(* (main_agent.py lines 583-601).  A scan yields the value of the local    *)
(* variable rag_results, or raised = TRUE when a statement of the scan     *)
(* raises (func_response.name on a function_response that is None).        *)
(***************************************************************************)
RECURSIVE ScanPartsForResponse(_, _, _)
\* the loop over event.content.parts, from part j on; cur is rag_results
ScanPartsForResponse(parts, j, cur) ==
  IF j > Len(parts) THEN [raised |-> FALSE, rag |-> cur]
  ELSE LET part == parts[j]
       IN  IF ~part.hasFR THEN ScanPartsForResponse(parts, j + 1, cur)
           ELSE IF part.frNone THEN [raised |-> TRUE, rag |-> cur]
           ELSE IF part.name = SearchTool /\ part.hasResponse
                THEN [raised |-> FALSE, rag |-> part.response]   \* break
           ELSE ScanPartsForResponse(parts, j + 1, cur)

RECURSIVE ScanEventsReversed(_, _, _)
\* for event in reversed(session.events), from event i down to the oldest
ScanEventsReversed(evs, i, cur) ==
  IF i = 0 THEN [raised |-> FALSE, rag |-> cur]
  ELSE IF ~evs[i].hasContent THEN ScanEventsReversed(evs, i - 1, cur)
  ELSE LET r == ScanPartsForResponse(evs[i].parts, 1, cur)
       IN  IF r.raised THEN r
           ELSE IF Truthy(r.rag) THEN r                          \* break
           ELSE ScanEventsReversed(evs, i - 1, r.rag)

\* mutant: the reverse scan without the test of the tool name (line 592)
ExtractRagResultsAnyTool(evs) ==
  LET any(part) == IF part.hasFR /\ ~part.frNone
                   THEN [part EXCEPT !.name = SearchTool] ELSE part
      ev(e)     == [e EXCEPT !.parts = [j \in 1..Len(e.parts) |-> any(e.parts[j])]]
  IN  ScanEventsReversed([i \in 1..Len(evs) |-> ev(evs[i])], Len(evs), RespNone)

\* mutant: the events scanned oldest first
ExtractRagResultsOldestFirst(evs) ==
  LET rev == [i \in 1..Len(evs) |-> evs[Len(evs) + 1 - i]]
  IN  ScanEventsReversed(rev, Len(evs), RespNone)


ExtractRagResults(evs) == ScanEventsReversed(evs, Len(evs), RespNone)

(***************************************************************************)
(* The forward scan for the student info (lines 603-626).  The break on a  *)
(* match leaves the loop over the parts only; the loop over the events     *)
(* goes on.  re.search raises on a text that is None.                      *)
(***************************************************************************)
RECURSIVE ScanPartsForInfo(_, _, _)
ScanPartsForInfo(parts, j, cur) ==
  IF j > Len(parts) THEN [raised |-> FALSE, info |-> cur]
  ELSE LET part == parts[j]
       IN  IF ~part.hasText THEN ScanPartsForInfo(parts, j + 1, cur)
           ELSE IF part.textNone THEN [raised |-> TRUE, info |-> cur]
           ELSE IF SearchTable[part.text].found
                THEN [raised |-> FALSE, info |-> SearchTable[part.text]]  \* break
           ELSE ScanPartsForInfo(parts, j + 1, cur)

RECURSIVE ScanEventsForward(_, _, _)
ScanEventsForward(evs, i, cur) ==
  IF i > Len(evs) THEN [raised |-> FALSE, info |-> cur]
  ELSE IF ~evs[i].hasContent THEN ScanEventsForward(evs, i + 1, cur)
  ELSE LET r == ScanPartsForInfo(evs[i].parts, 1, cur)
       IN  IF r.raised THEN r
           ELSE ScanEventsForward(evs, i + 1, r.info)

ExtractStudentInfo(evs) == ScanEventsForward(evs, 1, NoMatch)

\* mutant: the groups of the match taken in the wrong order
StudentInfoSwapped(m) ==
  [board |-> m.subject, grade |-> m.grade, subject |-> m.board, question |-> m.question]

\* the dictionary student_info built from the groups of a match
StudentInfo(m) ==
  [board |-> m.board, grade |-> m.grade, subject |-> m.subject, question |-> m.question]

(***************************************************************************)
(* session.state is a function from the keys present to their values.      *)
(***************************************************************************)
StateKeys == {"rag_results", "student_info", "style_selected", "current_style"}

EmptyState == [k \in {} |-> FALSE]

\* None as the value of current_style
NoStyle == "None"

Has(s, k) == k \in DOMAIN s

\* mutant: the write without the "not in session.state" test
SetAlways(s, k, v) == (k :> v) @@ s

\* session.state[k] = v for a key that is not in the state yet
SetIfAbsent(s, k, v) == IF Has(s, k) THEN s ELSE s @@ (k :> v)

\* mutant: the four writes chained with elif, so that one run writes one key
MergeStateElif(s, rag, info) ==
  IF Truthy(rag) /\ info.found
  THEN IF ~Has(s, "rag_results") THEN s @@ ("rag_results" :> rag)
       ELSE IF ~Has(s, "student_info") THEN s @@ ("student_info" :> StudentInfo(info))
       ELSE IF ~Has(s, "style_selected") THEN s @@ ("style_selected" :> FALSE)
       ELSE SetIfAbsent(s, "current_style", NoStyle)
  ELSE IF Truthy(rag)
  THEN IF DOMAIN s # {} /\ Has(s, "student_info") /\ ~Has(s, "rag_results")
       THEN s @@ ("rag_results" :> rag)
       ELSE s
  ELSE s

\* mutant: the writes without the elif branch of lines 652-657
MergeStateNoElif(s, rag, info) ==
  IF Truthy(rag) /\ info.found
  THEN LET s1 == SetIfAbsent(s, "rag_results", rag)
           s2 == SetIfAbsent(s1, "student_info", StudentInfo(info))
           s3 == SetIfAbsent(s2, "style_selected", FALSE)
       IN  SetIfAbsent(s3, "current_style", NoStyle)
  ELSE s

\* mutant: the elif branch assigns a new dict instead of adding a key
MergeStateElifReplaces(s, rag, info) ==
  IF Truthy(rag) /\ info.found
  THEN LET s1 == SetIfAbsent(s, "rag_results", rag)
           s2 == SetIfAbsent(s1, "student_info", StudentInfo(info))
           s3 == SetIfAbsent(s2, "style_selected", FALSE)
       IN  SetIfAbsent(s3, "current_style", NoStyle)
  ELSE IF Truthy(rag)
  THEN IF DOMAIN s # {} /\ Has(s, "student_info") /\ ~Has(s, "rag_results")
       THEN ("rag_results" :> rag)
       ELSE s
  ELSE s

\* mutant: a response without a results key is stored as an empty summary
MergeStateSummaryOnly(s, rag, info) ==
  LET sum == IF "results" \in rag.keys THEN rag
             ELSE Response({"results"}, <<>>, "")
  IN  IF Truthy(rag) /\ info.found
      THEN LET s1 == SetIfAbsent(s, "rag_results", sum)
               s2 == SetIfAbsent(s1, "student_info", StudentInfo(info))
               s3 == SetIfAbsent(s2, "style_selected", FALSE)
           IN  SetIfAbsent(s3, "current_style", NoStyle)
      ELSE IF Truthy(rag)
      THEN IF DOMAIN s # {} /\ Has(s, "student_info") /\ ~Has(s, "rag_results")
           THEN s @@ ("rag_results" :> sum)
           ELSE s
      ELSE s

\* mutant: the elif branch stores the response whatever the state holds
MergeStateElifUnguarded(s, rag, info) ==
  IF Truthy(rag) /\ info.found
  THEN LET s1 == SetIfAbsent(s, "rag_results", rag)
           s2 == SetIfAbsent(s1, "student_info", StudentInfo(info))
           s3 == SetIfAbsent(s2, "style_selected", FALSE)
       IN  SetIfAbsent(s3, "current_style", NoStyle)
  ELSE IF Truthy(rag)
  THEN SetIfAbsent(s, "rag_results", rag)
  ELSE s

\* mutant: the response is tested against None, not for truth
MergeStateNotNone(s, rag, info) ==
  IF ~rag.isNone /\ info.found
  THEN LET s1 == SetIfAbsent(s, "rag_results", rag)
           s2 == SetIfAbsent(s1, "student_info", StudentInfo(info))
           s3 == SetIfAbsent(s2, "style_selected", FALSE)
       IN  SetIfAbsent(s3, "current_style", NoStyle)
  ELSE IF ~rag.isNone
  THEN IF DOMAIN s # {} /\ Has(s, "student_info") /\ ~Has(s, "rag_results")
       THEN s @@ ("rag_results" :> rag)
       ELSE s
  ELSE s

\* mutant: a response that reports an error is not stored
MergeStateSkipErrors(s, rag, info) ==
  IF Truthy(rag) /\ rag.status # "error" /\ info.found
  THEN LET s1 == SetIfAbsent(s, "rag_results", rag)
           s2 == SetIfAbsent(s1, "student_info", StudentInfo(info))
           s3 == SetIfAbsent(s2, "style_selected", FALSE)
       IN  SetIfAbsent(s3, "current_style", NoStyle)
  ELSE IF Truthy(rag) /\ rag.status # "error"
  THEN IF DOMAIN s # {} /\ Has(s, "student_info") /\ ~Has(s, "rag_results")
       THEN s @@ ("rag_results" :> rag)
       ELSE s
  ELSE s

\* mutant: the first branch without the style keys of lines 641-644
MergeStateNoStyleKeys(s, rag, info) ==
  IF Truthy(rag) /\ info.found
  THEN SetIfAbsent(SetIfAbsent(s, "rag_results", rag), "student_info", StudentInfo(info))
  ELSE IF Truthy(rag)
  THEN IF DOMAIN s # {} /\ Has(s, "student_info") /\ ~Has(s, "rag_results")
       THEN s @@ ("rag_results" :> rag)
       ELSE s
  ELSE s

\* mutant: the first branch records a chosen style
MergeStateStyleChosen(s, rag, info) ==
  IF Truthy(rag) /\ info.found
  THEN LET s1 == SetIfAbsent(s, "rag_results", rag)
           s2 == SetIfAbsent(s1, "student_info", StudentInfo(info))
           s3 == SetIfAbsent(s2, "style_selected", TRUE)
       IN  SetIfAbsent(s3, "current_style", "story")
  ELSE IF Truthy(rag)
  THEN IF DOMAIN s # {} /\ Has(s, "student_info") /\ ~Has(s, "rag_results")
       THEN s @@ ("rag_results" :> rag)
       ELSE s
  ELSE s

\* mutant: only the first three results of the response are kept
MergeStateFirstThree(s, rag, info) ==
  LET n   == IF Len(rag.results) < 3 THEN Len(rag.results) ELSE 3
      cut == [rag EXCEPT !.results = SubSeq(rag.results, 1, n)]
  IN  IF Truthy(rag) /\ info.found
      THEN LET s1 == SetIfAbsent(s, "rag_results", cut)
               s2 == SetIfAbsent(s1, "student_info", StudentInfo(info))
               s3 == SetIfAbsent(s2, "style_selected", FALSE)
           IN  SetIfAbsent(s3, "current_style", NoStyle)
      ELSE IF Truthy(rag)
      THEN IF DOMAIN s # {} /\ Has(s, "student_info") /\ ~Has(s, "rag_results")
           THEN s @@ ("rag_results" :> cut)
           ELSE s
      ELSE s

\* lines 629-657: the writes, given what the two scans found
MergeState(s, rag, info) ==
  IF Truthy(rag) /\ info.found
  THEN LET s1 == SetIfAbsent(s, "rag_results", rag)
           s2 == SetIfAbsent(s1, "student_info", StudentInfo(info))
           s3 == SetIfAbsent(s2, "style_selected", FALSE)
       IN  SetIfAbsent(s3, "current_style", NoStyle)
  ELSE IF Truthy(rag)
  THEN IF DOMAIN s # {} /\ Has(s, "student_info") /\ ~Has(s, "rag_results")
       THEN s @@ ("rag_results" :> rag)
       ELSE s
  ELSE s

\* mutant: the body without the early return of lines 576-579
StoreBodyNoReturn(s, evs) ==
  IF evs = <<>> THEN [state |-> s, raised |-> FALSE]
  ELSE LET r == ExtractRagResults(evs)
       IN  IF r.raised THEN [state |-> s, raised |-> TRUE]
           ELSE LET f == ExtractStudentInfo(evs)
                IN  IF f.raised THEN [state |-> s, raised |-> TRUE]
                    ELSE [state |-> MergeState(s, r.rag, f.info), raised |-> FALSE]

\* lines 572-657: the body of the try block
StoreBody(s, evs) ==
  IF DOMAIN s # {} /\ Has(s, "rag_results") /\ Has(s, "student_info")
  THEN [state |-> s, raised |-> FALSE]                            \* return
  ELSE IF evs = <<>> THEN [state |-> s, raised |-> FALSE]
  ELSE LET r == ExtractRagResults(evs)
       IN  IF r.raised THEN [state |-> s, raised |-> TRUE]
           ELSE LET f == ExtractStudentInfo(evs)
                IN  IF f.raised THEN [state |-> s, raised |-> TRUE]
                    ELSE [state |-> MergeState(s, r.rag, f.info), raised |-> FALSE]

\* mutant: the callback without its try/except
StoreSessionStateCallbackNoCatch(s, evs) ==
  LET b == StoreBody(s, evs)
  IN  [state |-> b.state, raised |-> b.raised, escaped |-> b.raised]

\* store_session_state_callback: try ... except Exception: print
StoreSessionStateCallback(s, evs) ==
  LET b == StoreBody(s, evs)
  IN  [state |-> b.state, raised |-> b.raised, escaped |-> FALSE]

(***************************************************************************)
(* auto_save_session_to_memory_callback (lines 663-687).  The memory       *)
(* service of the invocation context is None, an object without            *)
(* add_session_to_memory, a service that stores the session, or a service  *)
(* whose add_session_to_memory raises.                                     *)
(***************************************************************************)
MemoryServices == {"None", "NoMethod", "Ok", "Raises"}

\* what add_session_to_memory was handed: nothing (it was not called), or
\* the session, of which the model keeps session.state
NotForwarded == [called |-> FALSE, state |-> EmptyState]

Forwarded(s) == [called |-> TRUE, state |-> s]

\* mutant: the mirror without the hasattr test of line 683; the call on a
\* service without the method raises AttributeError, which is caught
AutoSaveNoHasattr(s, ms) ==
  IF ms = "None"
  THEN [state |-> s, mirror |-> "skipped", escaped |-> FALSE, forwarded |-> NotForwarded]
  ELSE IF ms = "Ok"
  THEN [state |-> s, mirror |-> "saved", escaped |-> FALSE, forwarded |-> Forwarded(s)]
  ELSE IF ms = "NoMethod"
  THEN [state |-> s, mirror |-> "failed", escaped |-> FALSE, forwarded |-> NotForwarded]
  ELSE [state |-> s, mirror |-> "failed", escaped |-> FALSE, forwarded |-> Forwarded(s)]

\* mutant: the mirror without its try/except
AutoSaveNoCatch(s, ms) ==
  IF ms \in {"None", "NoMethod"}
  THEN [state |-> s, mirror |-> "skipped", escaped |-> FALSE, forwarded |-> NotForwarded]
  ELSE IF ms = "Ok"
  THEN [state |-> s, mirror |-> "saved", escaped |-> FALSE, forwarded |-> Forwarded(s)]
  ELSE [state |-> s, mirror |-> "failed", escaped |-> TRUE, forwarded |-> Forwarded(s)]


AutoSaveSessionToMemoryCallback(s, ms) ==
  IF ms \in {"None", "NoMethod"}
  THEN [state |-> s, mirror |-> "skipped", escaped |-> FALSE, forwarded |-> NotForwarded]
  ELSE IF ms = "Ok"
  THEN [state |-> s, mirror |-> "saved", escaped |-> FALSE, forwarded |-> Forwarded(s)]
  ELSE [state |-> s, mirror |-> "failed", escaped |-> FALSE, forwarded |-> Forwarded(s)]  \* caught

(***************************************************************************)
(* The session and one turn after the other.                               *)
(***************************************************************************)
\* the longest event history explored
MaxEvents == 3

\* values a state written before the first turn may hold
StoredInfo ==
  [board |-> <<"S", "S", "C">>, grade |-> <<"9">>, subject |-> <<"A", "r", "t">>,
   question |-> <<"W", "h", "o", "?">>]

StoredRag == Response({"results", "status"}, <<Result(<<"o", "l", "d">>)>>, "success")

\* session.state when the session is handed to the agent: empty, or
\* populated by the host (create_session(state=...)) or written by the model
InitStates ==
  { EmptyState,
    ("student_info" :> StoredInfo),
    ("rag_results" :> StoredRag),
    ("student_info" :> StoredInfo) @@ ("rag_results" :> StoredRag),
    ("student_info" :> StoredInfo) @@ ("rag_results" :> StoredRag)
       @@ ("style_selected" :> TRUE) @@ ("current_style" :> "story"),
    ("style_selected" :> TRUE) @@ ("current_style" :> "story") }

VARIABLES
  state,           \* session.state
  events,          \* session.events
  op,              \* the step taken last
  pre,             \* session.state when the last after-agent callback began
  merged,          \* session.state when its store_session_state_callback returned
  raised,          \* a statement of its store_session_state_callback raised
  escaped,         \* an exception left combined_after_callback
  mirror,          \* what its auto_save_session_to_memory_callback did
  memory_service,  \* the memory service of its invocation context
  forwarded,       \* the session its add_session_to_memory was called with
  text,            \* a text handed to the pattern of line 613, by its pieces
  match,           \* what re.search returned for it
  pc,              \* where each of two turns in flight stands
  call,            \* the arguments of a call of generate_explanation
  returned         \* what the call gave back

vars == <<state, events, op, pre, merged, raised, escaped, mirror, memory_service,
          forwarded, text, match, pc, call, returned>>

\* two turns of the same session
Turns == {1, 2}

\* no turn has begun
NoTurn == [t \in Turns |-> "idle"]

\* an explanation_style argument: a string, or None
StyleArg(none, s) == [isNone |-> none, chars |-> s]

\* no call of generate_explanation is made
NoCall == [rag_results |-> [isMapping |-> FALSE, hasResults |-> FALSE, results |-> <<>>],
           explanation_style |-> StyleArg(TRUE, <<>>),
           question |-> StyleArg(TRUE, <<>>)]

\* what a call gives back: the keys of the dictionary returned and the
\* values of those the model follows
Returned(esc, ks, st, n, ctx, ins, lang, q) ==
  [escaped |-> esc, keys |-> ks, status |-> st, results_count |-> n,
   rag_context |-> ctx, instruction |-> ins, language |-> lang, question |-> q]

NoReturn == Returned(FALSE, {}, "", 0, <<>>, "", <<>>, <<>>)

\* the text of the extraction runs while the session machine runs
NoText == [board |-> <<>>, grade |-> <<>>, subject |-> <<>>, question |-> <<>>]

Init ==
  /\ state \in InitStates
  /\ events = <<>>
  /\ op = "init"
  /\ pre = state
  /\ merged = state
  /\ raised = FALSE
  /\ escaped = FALSE
  /\ mirror = "none"
  /\ memory_service = "None"
  /\ forwarded = NotForwarded
  /\ text = NoText
  /\ match = NoMatch
  /\ pc = NoTurn
  /\ call = NoCall
  /\ returned = NoReturn

\* the host runtime records an event of the turn in session.events
AppendEvent ==
  /\ Len(events) < MaxEvents
  /\ \E e \in EventSet : events' = Append(events, e)
  /\ op' = "append"
  /\ pre' = state
  /\ merged' = state
  /\ raised' = FALSE
  /\ escaped' = FALSE
  /\ mirror' = "none"
  /\ memory_service' = "None"
  /\ forwarded' = NotForwarded
  /\ UNCHANGED <<state, text, match, pc, call, returned>>

\* before_agent_callback (lines 692-711): reads session.state and prints
BeforeAgentCallback ==
  /\ op' = "before"
  /\ pre' = state
  /\ merged' = state
  /\ raised' = FALSE
  /\ escaped' = FALSE
  /\ mirror' = "none"
  /\ memory_service' = "None"
  /\ forwarded' = NotForwarded
  /\ UNCHANGED <<state, events, text, match, pc, call, returned>>

\* mutant: the mirror is awaited first, the merge after it
CombinedAfterCallbackMirrorFirst ==
  \E ms \in MemoryServices :
    \E a \in {AutoSaveSessionToMemoryCallback(state, ms)} :
      \E m \in {StoreSessionStateCallback(a.state, events)} :
        /\ op' = "after"
        /\ pre' = state
        /\ merged' = m.state
        /\ raised' = m.raised
        /\ memory_service' = ms
        /\ state' = m.state
        /\ mirror' = a.mirror
        /\ escaped' = (a.escaped \/ m.escaped)
        /\ forwarded' = a.forwarded
        /\ UNCHANGED <<events, text, match, pc, call, returned>>

\* combined_after_callback (lines 721-724): the merge, then the mirror
CombinedAfterCallback ==
  \E m \in {StoreSessionStateCallback(state, events)} :
    \E ms \in MemoryServices :
      \E a \in {AutoSaveSessionToMemoryCallback(m.state, ms)} :
        /\ op' = "after"
        /\ pre' = state
        /\ merged' = m.state
        /\ raised' = m.raised
        /\ memory_service' = ms
        /\ IF m.escaped
           THEN /\ state' = m.state
                /\ mirror' = "none"
                /\ escaped' = TRUE
                /\ forwarded' = NotForwarded
           ELSE /\ state' = a.state
                /\ mirror' = a.mirror
                /\ escaped' = a.escaped
                /\ forwarded' = a.forwarded
        /\ UNCHANGED <<events, text, match, pc, call, returned>>

Next ==
  \/ AppendEvent
  \/ BeforeAgentCallback
  \/ CombinedAfterCallback

Spec == Init /\ [][Next]_vars

(***************************************************************************)
(* A session the host creates without initial state: session.state is      *)
(* empty at its start and the callbacks are its only writers.              *)
(***************************************************************************)
InitEmpty ==
  /\ Init
  /\ state = EmptyState

SpecEmpty == InitEmpty /\ [][Next]_vars

(***************************************************************************)
(* The pattern of line 613 on its own: one text of the form                *)
(* BOARD-grade-GRADE-SUBJECT. Question: QUESTION is searched.              *)
(***************************************************************************)
\* the longest BOARD, GRADE and SUBJECT explored
MaxWord == 2

\* the longest QUESTION explored
MaxQuestion == 3

\* the sequences over S of length lo..hi
Strings(S, lo, hi) == UNION {[1..k -> S] : k \in lo..hi}

BoardChars == {"C", "s"}

GradeChars == {"7"}

SubjectChars == {"M", "e"}

QuestionChars == {"a", " ", "\n"}

ExactTexts ==
  [board    : Strings(BoardChars, 1, MaxWord),
   grade    : Strings(GradeChars, 1, MaxWord),
   subject  : Strings(SubjectChars, 1, MaxWord),
   question : Strings(QuestionChars, 0, MaxQuestion)]

\* "BOARD-grade-GRADE-SUBJECT. Question: QUESTION"
TemplateText(x) ==
  x.board \o GradeLit \o x.grade \o <<"-">> \o x.subject \o <<".", " ">>
    \o QuestionLit \o <<" ">> \o x.question

InitExtract ==
  /\ state = EmptyState
  /\ events = <<>>
  /\ op = "init"
  /\ pre = EmptyState
  /\ merged = EmptyState
  /\ raised = FALSE
  /\ escaped = FALSE
  /\ mirror = "none"
  /\ memory_service = "None"
  /\ forwarded = NotForwarded
  /\ text \in ExactTexts
  /\ match = NoMatch
  /\ pc = NoTurn
  /\ call = NoCall
  /\ returned = NoReturn

\* line 613: match = re.search(pattern, text, re.IGNORECASE)
SearchText ==
  /\ op = "init"
  /\ op' = "search"
  /\ match' = Search(TemplateText(text))
  /\ UNCHANGED <<state, events, pre, merged, raised, escaped, mirror,
                 memory_service, forwarded, text, pc, call, returned>>

NextExtract == SearchText

SpecExtract == InitExtract /\ [][NextExtract]_vars

(***************************************************************************)
(* Two turns of one session in flight on one event loop.  A coroutine runs *)
(* until it reaches an await that suspends: store_session_state_callback   *)
(* (lines 557-659) has none, so a turn's merge is one step; the call of    *)
(* add_session_to_memory (line 684) is the one place where a turn can be   *)
(* suspended and the other turn run.                                       *)
(***************************************************************************)
\* the longest event history explored with two turns in flight
MaxTurnEvents == 2

\* the events the two turns record
TurnEventSet == {EvUserICSE, EvUserCBSE, EvRespTwo, EvToolsFive}

\* mutant: the merge is run again after the await of line 684
AfterAwaitMerges(s, evs, ms) ==
  [state   |-> StoreSessionStateCallback(s, evs).state,
   mirror  |-> IF ms = "Ok" THEN "saved" ELSE "failed",
   escaped |-> FALSE]

\* lines 684-687, from the point where add_session_to_memory returns or
\* raises: a print, and nothing written
AfterAwait(s, evs, ms) ==
  [state   |-> s,
   mirror  |-> IF ms = "Ok" THEN "saved" ELSE "failed",
   escaped |-> FALSE]

\* a turn begins: before_agent_callback (lines 692-711) reads and prints
TurnBegin(t) ==
  /\ pc[t] = "idle"
  /\ pc' = [pc EXCEPT ![t] = "running"]
  /\ op' = "before"
  /\ pre' = state
  /\ merged' = state
  /\ raised' = FALSE
  /\ escaped' = FALSE
  /\ mirror' = "none"
  /\ memory_service' = "None"
  /\ forwarded' = NotForwarded
  /\ UNCHANGED <<state, events, text, match, call, returned>>

\* the host runtime records an event of a running turn
TurnEvent ==
  /\ \E t \in Turns : pc[t] = "running"
  /\ Len(events) < MaxTurnEvents
  /\ \E e \in TurnEventSet : events' = Append(events, e)
  /\ op' = "append"
  /\ pre' = state
  /\ merged' = state
  /\ raised' = FALSE
  /\ escaped' = FALSE
  /\ mirror' = "none"
  /\ memory_service' = "None"
  /\ forwarded' = NotForwarded
  /\ UNCHANGED <<state, text, match, pc, call, returned>>

\* combined_after_callback of turn t, up to its end or to the await of
\* line 684: the merge, then the mirror as far as the call of the service
TurnAfter(t) ==
  /\ pc[t] = "running"
  /\ \E m \in {StoreSessionStateCallback(state, events)} :
       \E ms \in MemoryServices :
         \E a \in {AutoSaveSessionToMemoryCallback(m.state, ms)} :
           /\ op' = "after"
           /\ pre' = state
           /\ merged' = m.state
           /\ raised' = m.raised
           /\ memory_service' = ms
           /\ state' = a.state
           /\ escaped' = FALSE
           /\ forwarded' = a.forwarded
           /\ IF a.forwarded.called
              THEN /\ mirror' = "awaiting"
                   /\ pc' = [pc EXCEPT ![t] = "awaiting"]
              ELSE /\ mirror' = a.mirror
                   /\ pc' = [pc EXCEPT ![t] = "done"]
  /\ UNCHANGED <<events, text, match, call, returned>>

\* add_session_to_memory returns to turn t, or raises into it
TurnResume(t) ==
  /\ pc[t] = "awaiting"
  /\ \E ms \in {"Ok", "Raises"} :
       \E a \in {AfterAwait(state, events, ms)} :
         /\ op' = "resume"
         /\ pre' = state
         /\ merged' = state
         /\ raised' = FALSE
         /\ memory_service' = ms
         /\ state' = a.state
         /\ mirror' = a.mirror
         /\ escaped' = a.escaped
  /\ pc' = [pc EXCEPT ![t] = "done"]
  /\ UNCHANGED <<events, forwarded, text, match, call, returned>>

NextTurns ==
  \/ \E t \in Turns : TurnBegin(t)
  \/ TurnEvent
  \/ \E t \in Turns : TurnAfter(t)
  \/ \E t \in Turns : TurnResume(t)

SpecTurns == Init /\ [][NextTurns]_vars

(***************************************************************************)
(* generate_explanation (explanation_tools.py, lines 9-93) on its own.     *)
(* An argument is a value of any type: for rag_results, a mapping or not;  *)
(* for its results, a list of items each of which is a mapping with a      *)
(* string text, a mapping without text, a mapping whose text is not a      *)
(* string, or not a mapping; for explanation_style, a string or None.      *)
(***************************************************************************)
\* the longest results list explored
MaxResults == 2

\* str.lower()
LowerStr(s) == [i \in 1..Len(s) |-> Lower(s[i])]

\* sub in s
Contains(sub, s) ==
  \E i \in 1..(Len(s) - Len(sub) + 1) : SubSeq(s, i, i + Len(sub) - 1) = sub

\* s.split(sep)[-1]: what follows the last occurrence of sep in s
LastPiece(sep, s) ==
  LET at == {i \in 1..(Len(s) - Len(sep) + 1) : SubSeq(s, i, i + Len(sep) - 1) = sep}
  IN  IF at = {} THEN s
      ELSE SubSeq(s, (CHOOSE i \in at : \A j \in at : i >= j) + Len(sep), Len(s))

\* the language names of line 53
LanguageWords ==
  { <<"h", "i", "n", "d", "i">>,
    <<"t", "a", "m", "i", "l">>,
    <<"t", "e", "l", "u", "g", "u">>,
    <<"b", "e", "n", "g", "a", "l", "i">>,
    <<"m", "a", "r", "a", "t", "h", "i">>,
    <<"g", "u", "j", "a", "r", "a", "t", "i">>,
    <<"k", "a", "n", "n", "a", "d", "a">>,
    <<"m", "a", "l", "a", "y", "a", "l", "a", "m">>,
    <<"o", "d", "i", "a">>,
    <<"p", "u", "n", "j", "a", "b", "i">>,
    <<"u", "r", "d", "u">> }

\* the kinds of item a results list holds
ItemKinds == {"text", "notext", "nonstring", "nonmapping"}

\* "heat"
ItemText == <<"h", "e", "a", "t">>

\* the rag_results arguments: not a mapping, or a mapping with or without
\* a results key
RagArgs ==
  [isMapping : {FALSE}, hasResults : {FALSE}, results : {<<>>}]
    \cup [isMapping : {TRUE}, hasResults : {FALSE}, results : {<<>>}]
    \cup [isMapping : {TRUE}, hasResults : {TRUE},
          results : UNION {[1..n -> ItemKinds] : n \in 0..MaxResults}]

StyleArgs ==
  { StyleArg(TRUE, <<>>),
    StyleArg(FALSE, <<"w", "i", "t", "h", " ", "e", "x", "a", "m", "p", "l", "e">>),
    StyleArg(FALSE, <<" ", "M", "E", "M", "O", "R", "Y", " ">>),
    StyleArg(FALSE, <<"S", "t", "o", "r", "y">>),
    StyleArg(FALSE, <<"i", "n", " ", "H", "i", "n", "d", "i">>),
    StyleArg(FALSE, <<"r", "a", "p">>) }

\* a question argument: None, or a string
QuestionArgs ==
  { StyleArg(TRUE, <<>>), StyleArg(FALSE, <<>>), StyleArg(FALSE, <<"W", "h", "y", "?">>) }

\* "General explanation"
GeneralExplanation == <<"G", "e", "n", "e", "r", "a", "l", " ", "e", "x", "p", "l", "a", "n", "a", "t", "i", "o", "n">>

RECURSIVE JoinTexts(_, _)
\* lines 40-42: "\n\n".join of the texts of results i.. ; a missing text
\* counts as ""
JoinTexts(results, i) ==
  IF i > Len(results) THEN <<>>
  ELSE (IF results[i] = "text" THEN ItemText ELSE <<>>)
         \o (IF i < Len(results) THEN <<"\n", "\n">> ELSE <<>>)
         \o JoinTexts(results, i + 1)

\* lines 45-61: the branch the style selects
StyleInstruction(style) ==
  LET style_lower == Strip(LowerStr(style.chars))
  IN  IF Contains(<<"e", "x", "a", "m", "p", "l", "e">>, style_lower) THEN "example"
      ELSE IF Contains(<<"m", "e", "m", "o", "r", "y">>, style_lower)
              \/ Contains(<<"m", "n", "e", "m", "o", "n", "i", "c">>, style_lower) THEN "memory"
      ELSE IF Contains(<<"s", "t", "o", "r", "y">>, style_lower)
              \/ Contains(<<"n", "a", "r", "r", "a", "t", "i", "v", "e">>, style_lower) THEN "story"
      ELSE IF Contains(<<"l", "a", "n", "g", "u", "a", "g", "e">>, style_lower)
              \/ \E w \in LanguageWords : Contains(w, style_lower) THEN "language"
      ELSE "default"

\* lines 55-57: the language of the "language" branch
StyleLanguage(style) ==
  LET style_lower == Strip(LowerStr(style.chars))
  IN  IF StyleInstruction(style) # "language" THEN <<>>
      ELSE IF Contains(<<"i", "n", " ">>, style_lower)
           THEN Strip(LastPiece(<<"i", "n", " ">>, style_lower))
           ELSE style.chars

\* lines 89-93: the dictionary of the except clause
ErrorCaught ==
  Returned(FALSE, {"status", "error_message", "message"}, "error", 0, <<>>, "", <<>>, <<>>)

\* lines 33-37: the dictionary returned for empty results
ErrorEmpty ==
  Returned(FALSE, {"status", "message", "error"}, "error", 0, <<>>, "", <<>>, <<>>)

\* lines 31-86: the body of the try block; raised when a statement raises
GenerateBody(rag, style, q) ==
  IF ~rag.isMapping THEN [raised |-> TRUE, ret |-> NoReturn]        \* .get
  ELSE IF ~rag.hasResults \/ rag.results = <<>>
  THEN [raised |-> FALSE, ret |-> ErrorEmpty]
  ELSE IF \E i \in 1..Len(rag.results) : rag.results[i] = "nonmapping"
  THEN [raised |-> TRUE, ret |-> NoReturn]                          \* result.get
  ELSE IF \E i \in 1..Len(rag.results) : rag.results[i] = "nonstring"
  THEN [raised |-> TRUE, ret |-> NoReturn]                          \* join
  ELSE IF style.isNone THEN [raised |-> TRUE, ret |-> NoReturn]     \* .lower
  ELSE [raised |-> FALSE,
        ret |-> Returned(FALSE,
                  {"status", "explanation_style", "explanation_prompt",
                   "rag_context", "results_count", "message"},
                  "success", Len(rag.results), JoinTexts(rag.results, 1),
                  StyleInstruction(style), StyleLanguage(style),
                  IF q.isNone \/ q.chars = <<>> THEN GeneralExplanation ELSE q.chars)]

\* mutant: the function without its try/except
GenerateExplanationNoCatch(rag, style, q) ==
  LET b == GenerateBody(rag, style, q)
  IN  IF b.raised THEN [NoReturn EXCEPT !.escaped = TRUE] ELSE b.ret

\* generate_explanation: try ... except Exception: return the error dictionary
GenerateExplanation(rag, style, q) ==
  LET b == GenerateBody(rag, style, q)
  IN  IF b.raised THEN ErrorCaught ELSE b.ret

InitExplain ==
  /\ state = EmptyState
  /\ events = <<>>
  /\ op = "init"
  /\ pre = EmptyState
  /\ merged = EmptyState
  /\ raised = FALSE
  /\ escaped = FALSE
  /\ mirror = "none"
  /\ memory_service = "None"
  /\ forwarded = NotForwarded
  /\ text = NoText
  /\ match = NoMatch
  /\ pc = NoTurn
  /\ call \in [rag_results : RagArgs, explanation_style : StyleArgs,
               question : QuestionArgs]
  /\ returned = NoReturn

\* one call of the tool
CallGenerateExplanation ==
  /\ op = "init"
  /\ op' = "explain"
  /\ returned' = GenerateExplanation(call.rag_results, call.explanation_style,
                                     call.question)
  /\ UNCHANGED <<state, events, pre, merged, raised, escaped, mirror,
                 memory_service, forwarded, text, match, pc, call>>

NextExplain == CallGenerateExplanation

SpecExplain == InitExplain /\ [][NextExplain]_vars

(***************************************************************************)
(* Properties.                                                             *)
(***************************************************************************)
\* the last step was an after-agent callback whose merge wrote rag_results
WroteRag == op = "after" /\ ~Has(pre, "rag_results") /\ Has(state, "rag_results")

\* the last step was an after-agent callback whose merge wrote student_info
WroteInfo == op = "after" /\ ~Has(pre, "student_info") /\ Has(state, "student_info")

\* C1: first write wins -- no step changes the value of a key that is
\* already present in session.state, and no step removes such a key.
FirstWriteWins ==
  [][\A k \in DOMAIN state : Has(state', k) /\ state'[k] = state[k]]_vars

\* C1 witness: the merge wrote into a state that held a student_info while
\* the history carried a matching text with other values; the stored one stays.
FirstWriteWinsWitness ==
  /\ op = "after"
  /\ Has(pre, "student_info")
  /\ state # pre
  /\ ExtractStudentInfo(events).info.found
  /\ StudentInfo(ExtractStudentInfo(events).info) # pre["student_info"]
  /\ state["student_info"] = StoredInfo

\* C2: once session.state holds both rag_results and student_info, every
\* step (every later merge in particular) leaves session.state unchanged.
NoOpOnceBoth ==
  [][(Has(state, "rag_results") /\ Has(state, "student_info")) => state' = state]_vars

\* C2 witness: the callback ran on a state holding both keys (and lacking the
\* style keys) while the history held a fresh response and a matching text.
NoOpOnceBothWitness ==
  /\ op = "after"
  /\ Has(pre, "rag_results")
  /\ Has(pre, "student_info")
  /\ ~Has(pre, "style_selected")
  /\ ~ExtractRagResults(events).raised
  /\ Truthy(ExtractRagResults(events).rag)
  /\ ~ExtractStudentInfo(events).raised
  /\ ExtractStudentInfo(events).info.found
  /\ state = pre

\* C3: the merge is idempotent -- after a run of the callback, a second run
\* on the same history yields the state the first run left.
MergeIdempotent ==
  op = "after" => StoreSessionStateCallback(state, events).state = state

\* C3 witness: a run of the callback that wrote to session.state.
MergeIdempotentWitness ==
  /\ op = "after"
  /\ state # pre
  /\ Has(state, "rag_results")
  /\ Has(state, "current_style")

\* the first-turn histories of C4: the ICSE question and a response with two
\* results, in either order, possibly with events that carry neither
FirstTurnHistory ==
  /\ \E i \in 1..Len(events) : events[i] = EvUserICSE
  /\ \E i \in 1..Len(events) : events[i] = EvRespTwo
  /\ \A i \in 1..Len(events) :
       events[i] \in {EvUserICSE, EvRespTwo, EvUserNoGrade, EvNoContent}

\* "Science"
SubjectScience == <<"S", "c", "i", "e", "n", "c", "e">>

\* C4 as claimed: after the first-turn merge on an empty state, student_info
\* has subject "Science", rag_results.count = 2, style_selected = false and
\* current_style = null.
EndToEndCount ==
  (op = "after" /\ pre = EmptyState /\ FirstTurnHistory) =>
     /\ Has(state, "student_info")
     /\ state["student_info"].subject = SubjectScience
     /\ Has(state, "rag_results")
     /\ "count" \in state["rag_results"].keys
     /\ state["rag_results"].count = 2
     /\ Has(state, "style_selected")
     /\ state["style_selected"] = FALSE
     /\ Has(state, "current_style")
     /\ state["current_style"] = NoStyle

\* C4 amended: after the first-turn merge on an empty state, student_info
\* has subject "Science", rag_results is the retrieval response itself (its
\* results list has 2 entries), style_selected = false, current_style = null.
EndToEndRaw ==
  (op = "after" /\ pre = EmptyState /\ FirstTurnHistory) =>
     /\ DOMAIN state = StateKeys
     /\ state["student_info"].subject = SubjectScience
     /\ state["rag_results"] = RespTwo
     /\ Len(state["rag_results"].results) = 2
     /\ state["style_selected"] = FALSE
     /\ state["current_style"] = NoStyle

\* C4 witness: the callback has run on the two-event first turn.
EndToEndWitness ==
  /\ op = "after"
  /\ pre = EmptyState
  /\ events = <<EvUserICSE, EvRespTwo>>
  /\ Has(state, "rag_results")

\* C5 as claimed: the student_info a merge writes is the one of the earliest
\* event of the history that holds a matching text.
FirstMatchUsed ==
  WroteInfo =>
    LET hit(e)   == {j \in 1..Len(e.parts) :
                       /\ e.parts[j].hasText
                       /\ ~e.parts[j].textNone
                       /\ SearchTable[e.parts[j].text].found}
        matching == {i \in 1..Len(events) : events[i].hasContent /\ hit(events[i]) # {}}
        first    == CHOOSE i \in matching : \A k \in matching : i <= k
        part     == CHOOSE j \in hit(events[first]) : \A k \in hit(events[first]) : j <= k
    IN  /\ matching # {}
        /\ state["student_info"] = StudentInfo(SearchTable[events[first].parts[part].text])

\* the response an event carries for the scan: that of its first part that
\* is a search_corpus_by_name function response
CarriedResponses(e) ==
  {e.parts[j].response : j \in {k \in 1..Len(e.parts) :
       /\ e.parts[k].hasFR
       /\ ~e.parts[k].frNone
       /\ e.parts[k].name = SearchTool
       /\ e.parts[k].hasResponse}}

SummaryStored ==
  (WroteRag /\ "results" \in ExtractRagResults(events).rag.keys) =>
    LET r          == ExtractRagResults(events).rag
        take(t, n) == SubSeq(t, 1, IF Len(t) < n THEN Len(t) ELSE n)
        piece(i)   == IF i <= Len(r.results) THEN take(r.results[i].text, 200) ELSE <<>>
    IN  state["rag_results"] =
          [isNone  |-> FALSE,
           keys    |-> {"summary", "count", "status"},
           summary |-> take(piece(1) \o piece(2) \o piece(3), 500),
           count   |-> Len(r.results),
           status  |-> r.status]

\* C7 amended: the rag_results a merge writes is a search_corpus_by_name
\* response of the history, stored as it is: every result with its whole
\* text, and no summary or count computed.
RawResponseStored ==
  WroteRag =>
    \E i \in 1..Len(events) :
      /\ events[i].hasContent
      /\ state["rag_results"] \in CarriedResponses(events[i])

\* C7 witness: a merge wrote a response with five results; all five are kept.
RawResponseWitness ==
  /\ WroteRag
  /\ \E i \in 1..Len(events) : events[i] = EvToolsFive
  /\ Len(state["rag_results"].results) = 5

\* C8: when add_session_to_memory raises, no exception leaves the callback
\* and session.state is what the merge before it left.
MirrorFailureContained ==
  (op = "after" /\ memory_service = "Raises") => (~escaped /\ state = merged)

\* C8 witness: the mirror failed in a turn whose merge had written the state.
MirrorFailureWitness ==
  /\ op = "after"
  /\ memory_service = "Raises"
  /\ mirror = "failed"
  /\ merged # pre
  /\ Has(state, "rag_results")

\* C9: an exception raised inside store_session_state_callback does not
\* leave it, and session.state is then what it was before the callback.
ExceptionContained ==
  (op = "after" /\ raised) => (~escaped /\ state = pre)

\* C9 witness: the callback raised on a history that holds a non-empty
\* retrieval response and a matching text, into a state with room for both.
ExceptionContainedWitness ==
  /\ op = "after"
  /\ raised
  /\ pre = EmptyState
  /\ \E i \in 1..Len(events) : events[i] = EvRespTwo
  /\ \E i \in 1..Len(events) : events[i] = EvUserICSE

\* C10 as claimed: after every merge that writes to session.state, the keys
\* style_selected and current_style are present.
StyleKeysInitialised ==
  (op = "after" /\ state # pre) =>
     (Has(state, "style_selected") /\ Has(state, "current_style"))

\* the reverse scan of the last callback ended with a retrieval response
\* (non-empty: an empty one does not end the scan)
ScanFoundRag ==
  ~ExtractRagResults(events).raised /\ Truthy(ExtractRagResults(events).rag)

\* the forward scan of the last callback ended with a text that matches
ScanFoundInfo ==
  ~ExtractStudentInfo(events).raised /\ ExtractStudentInfo(events).info.found

\* the forward scan of the last callback ended without a matching text
ScanFoundNoInfo ==
  ~ExtractStudentInfo(events).raised /\ ~ExtractStudentInfo(events).info.found

\* C11: when session.state holds student_info and not rag_results, and the
\* scans end with a retrieval response and without a matching text, the
\* merge adds that response as rag_results and changes nothing else
\* (student_info in particular stays as it was).
ElifWritesRag ==
  (op = "after" /\ Has(pre, "student_info") /\ ~Has(pre, "rag_results")
     /\ ScanFoundRag /\ ScanFoundNoInfo) =>
    /\ state = pre @@ ("rag_results" :> ExtractRagResults(events).rag)
    /\ state["student_info"] = pre["student_info"]

\* C11 witness: the callback ran on a state that held only student_info,
\* with a history holding the five-result response and no matching text.
ElifWritesRagWitness ==
  /\ op = "after"
  /\ pre = ("student_info" :> StoredInfo)
  /\ ScanFoundRag
  /\ ScanFoundNoInfo
  /\ state["rag_results"] = RespFive
  /\ state["student_info"] = StoredInfo

\* no event of the history carries a search_corpus_by_name response
NoResponseInHistory ==
  \A i \in 1..Len(events) :
    ~events[i].hasContent \/ CarriedResponses(events[i]) = {}

\* C12 as claimed: when session.state holds rag_results and not
\* student_info, the history holds no retrieval response and the forward
\* scan ends with a matching text, the merge writes the extracted
\* student_info.
InfoWrittenWithoutResponse ==
  (op = "after" /\ ~raised /\ Has(pre, "rag_results") /\ ~Has(pre, "student_info")
     /\ NoResponseInHistory /\ ScanFoundInfo) =>
    /\ Has(state, "student_info")
    /\ state["student_info"] = StudentInfo(ExtractStudentInfo(events).info)

\* C13: session.state only grows -- no step of the merge callback, the
\* memory mirror or the before-agent callback removes a key from
\* session.state, so a non-empty state is never reset.
StateOnlyGrows ==
  [][DOMAIN state \subseteq DOMAIN state']_vars

\* C13 witness: a merge ran on a non-empty state and added keys to it.
StateOnlyGrowsWitness ==
  /\ op = "after"
  /\ DOMAIN pre # {}
  /\ DOMAIN pre \subseteq DOMAIN state
  /\ DOMAIN state # DOMAIN pre

\* C14: on every turn completion the merge finishes before the mirror is
\* invoked, and whenever a memory service is configured the mirror calls
\* it -- also when the merge wrote nothing -- with the session in its
\* post-merge state.
MirrorAfterMerge ==
  (op = "after" /\ memory_service \in {"Ok", "Raises"}) =>
    /\ merged = StoreSessionStateCallback(pre, events).state
    /\ mirror \in {"saved", "failed"}
    /\ forwarded = Forwarded(merged)

\* C14 witness: a turn whose merge raised and wrote nothing, with a memory
\* service configured; the service was handed the unchanged session.
MirrorAfterMergeWitness ==
  /\ op = "after"
  /\ memory_service = "Ok"
  /\ raised
  /\ merged = pre
  /\ Has(pre, "student_info")
  /\ forwarded = Forwarded(pre)

\* C15 as claimed: for every text BOARD-grade-GRADE-SUBJECT. Question:
\* QUESTION the extractor returns board BOARD, grade GRADE, subject SUBJECT
\* and question QUESTION.
ExactFormExtracted ==
  op = "search" =>
    /\ match.found
    /\ StudentInfo(match) = text

\* s without its leading whitespace
LStrip(s) ==
  LET keep == {i \in 1..Len(s) : s[i] \notin Whitespace}
  IN  IF keep = {} THEN <<>>
      ELSE SubSeq(s, CHOOSE i \in keep : \A j \in keep : i <= j, Len(s))

\* s without its trailing whitespace
RStrip(s) ==
  LET keep == {i \in 1..Len(s) : s[i] \notin Whitespace}
  IN  IF keep = {} THEN <<>>
      ELSE SubSeq(s, 1, CHOOSE i \in keep : \A j \in keep : i >= j)

\* s up to its first line break
FirstLine(s) ==
  LET nl == {i \in 1..Len(s) : s[i] = "\n"}
  IN  IF nl = {} THEN s
      ELSE SubSeq(s, 1, (CHOOSE i \in nl : \A j \in nl : i <= j) - 1)

\* C15 amended: for every such text the extractor returns board BOARD,
\* grade GRADE, subject SUBJECT, and as question the first line of QUESTION
\* after its leading whitespace, without trailing whitespace; the text of
\* the example gives CBSE, 10, Mathematics, "What is a fraction?".
ExactFormExtractedTrimmed ==
  /\ SearchTable["CBSE"].found
  /\ StudentInfo(SearchTable["CBSE"]) =
       [board    |-> <<"C", "B", "S", "E">>,
        grade    |-> <<"1", "0">>,
        subject  |-> <<"M", "a", "t", "h", "e", "m", "a", "t", "i", "c", "s">>,
        question |-> SubSeq(TextCBSE, 38, Len(TextCBSE))]
  /\ op = "search" =>
       /\ match.found
       /\ match.start = 1
       /\ StudentInfo(match) =
            [text EXCEPT !.question = RStrip(FirstLine(LStrip(text.question)))]

\* C15 witness: a text whose QUESTION is padded and runs over two lines
\* was searched; the question returned is its first line, trimmed.
ExactFormWitness ==
  /\ op = "search"
  /\ text.question = <<" ", "a", "\n">>
  /\ match.found
  /\ match.question = <<"a">>
  /\ match.board = text.board

\* the texts of the histories that are not of the template: one has no
\* template at all, one has a letter where the grade's digits belong
NonMatchingTexts == {"Story", "NoGrade"}

\* no text of the history matches the template (parts without a text, or
\* with a null text, have none that could)
NoMatchingText ==
  \A i \in 1..Len(events) : \A j \in 1..Len(events[i].parts) :
    (events[i].parts[j].hasText /\ ~events[i].parts[j].textNone)
      => events[i].parts[j].text \in NonMatchingTexts

\* C16: a text that does not match the template yields "not found", and
\* when no text of the history matches, no exception leaves the callback
\* and the merge writes no student_info (a stored one stays as it was).
ExtractionMissSkipped ==
  /\ \A n \in NonMatchingTexts : ~SearchTable[n].found
  /\ (op = "after" /\ NoMatchingText) =>
       /\ ~escaped
       /\ ~WroteInfo
       /\ Has(pre, "student_info") => state["student_info"] = pre["student_info"]

\* C16 witness: the merge ran on the empty state with a history that holds
\* a retrieval response and the text with a malformed grade; nothing stored.
ExtractionMissWitness ==
  /\ op = "after"
  /\ pre = EmptyState
  /\ NoMatchingText
  /\ \E i \in 1..Len(events) : events[i] = EvUserNoGrade
  /\ ScanFoundRag
  /\ ~raised
  /\ state = EmptyState

\* C17: when the response the reverse scan ends with has no results key
\* and the forward scan ends with a matching text, the merge on an empty
\* state stores that response, unmodified, as rag_results.
MalformedStoredRaw ==
  (op = "after" /\ pre = EmptyState /\ ScanFoundRag /\ ScanFoundInfo
     /\ "results" \notin ExtractRagResults(events).rag.keys) =>
    /\ Has(state, "rag_results")
    /\ state["rag_results"] = ExtractRagResults(events).rag

\* C17 witness: the merge ran on the empty state and stored the error
\* response, which has the keys status and error_message only.
MalformedStoredRawWitness ==
  /\ op = "after"
  /\ pre = EmptyState
  /\ ScanFoundInfo
  /\ Has(state, "rag_results")
  /\ state["rag_results"] = RespErr
  /\ state["rag_results"].keys = {"status", "error_message"}
  /\ Has(state, "student_info")

\* C18: a scan that does not find what it needs leaves session.state
\* unchanged -- when the history holds neither a retrieval response nor a
\* matching text, or holds a retrieval response and no matching text while
\* the state has no student_info, the merge writes nothing (the response
\* found is not stored).
NothingFoundNothingWritten ==
  (op = "after" /\ NoMatchingText
     /\ (NoResponseInHistory \/ ~Has(pre, "student_info"))) =>
    state = pre

\* C18 witness: the merge ran on a non-empty state without student_info
\* and without rag_results; the reverse scan ended with a response, no text
\* matched, and the state is what it was.
NothingFoundWitness ==
  /\ op = "after"
  /\ DOMAIN pre = {"style_selected", "current_style"}
  /\ NoMatchingText
  /\ ~raised
  /\ ScanFoundRag
  /\ state = pre

\* C19 as claimed: retrieval happens at most once per session -- once
\* rag_results is present in session.state, no event recorded later carries
\* a search_corpus_by_name response (no later turn invokes the tool).
SearchAtMostOnce ==
  [][(Has(state, "rag_results") /\ Len(events') > Len(events)) =>
       CarriedResponses(events'[Len(events')]) = {}]_vars

\* C20: the mirror forwards the session only when a memory service is
\* configured -- when memory_service is None or has no
\* add_session_to_memory, no forwarding call is made, nothing is raised,
\* and the callback completes leaving session.state as the merge left it.
MirrorSkippedWithoutService ==
  /\ (op = "after" /\ memory_service \in {"None", "NoMethod"}) =>
       /\ forwarded = NotForwarded
       /\ mirror = "skipped"
       /\ ~escaped
       /\ state = merged
  /\ forwarded.called => memory_service \in {"Ok", "Raises"}

\* C20 witness: a turn whose merge wrote to session.state, with a memory
\* service object that has no add_session_to_memory; nothing was forwarded.
MirrorSkippedWitness ==
  /\ op = "after"
  /\ memory_service = "NoMethod"
  /\ merged # pre
  /\ state = merged
  /\ forwarded = NotForwarded
  /\ mirror = "skipped"

\* C21 as claimed: when session.state holds rag_results and student_info
\* and the history of a later turn holds a new retrieval response and a
\* question on another board/grade/subject, the merge replaces the stored
\* rag_results and student_info by the new ones.
TopicChangeReplaces ==
  (op = "after" /\ Has(pre, "rag_results") /\ Has(pre, "student_info")
     /\ ScanFoundRag /\ ScanFoundInfo
     /\ ExtractRagResults(events).rag # pre["rag_results"]
     /\ StudentInfo(ExtractStudentInfo(events).info) # pre["student_info"]) =>
    /\ state["rag_results"] = ExtractRagResults(events).rag
    /\ state["student_info"] = StudentInfo(ExtractStudentInfo(events).info)

\* the non-empty search_corpus_by_name responses carried by events lo..hi
RecordedResponses(lo, hi) ==
  UNION {{r \in CarriedResponses(events[i]) : Truthy(r)} :
           i \in {k \in lo..hi : events[k].hasContent}}

\* the student_info records of the texts of events lo..hi that match
MatchedInfos(lo, hi) ==
  {StudentInfo(SearchTable[events[i].parts[j].text]) :
     <<i, j>> \in {p \in (lo..hi) \X (1..2) :
                     /\ p[2] <= Len(events[p[1]].parts)
                     /\ events[p[1]].parts[p[2]].hasText
                     /\ ~events[p[1]].parts[p[2]].textNone
                     /\ SearchTable[events[p[1]].parts[p[2]].text].found}}

\* C22 as claimed: each merge rescans the whole history -- when the events
\* up to some turn hold a retrieval response and no matching text, so that
\* the merge of that turn stored nothing, and the events of a later turn
\* hold a matching text and no new retrieval response, the later merge
\* stores the earlier response as rag_results and the extracted student_info.
MissedUpdateRecovered ==
  (op = "after" /\ ~Has(pre, "rag_results") /\ ~Has(pre, "student_info")) =>
    \A k \in 1..(Len(events) - 1) :
      ( /\ RecordedResponses(1, k) # {}
        /\ MatchedInfos(1, k) = {}
        /\ StoreSessionStateCallback(pre, SubSeq(events, 1, k)).state = pre
        /\ MatchedInfos(k + 1, Len(events)) # {}
        /\ RecordedResponses(k + 1, Len(events)) = {} ) =>
      /\ Has(state, "rag_results")
      /\ state["rag_results"] \in RecordedResponses(1, k)
      /\ Has(state, "student_info")
      /\ state["student_info"] \in MatchedInfos(k + 1, Len(events))

\* the history holds a part whose text attribute is null, or a part whose
\* function_response attribute is null in an event more recent than one
\* that carries a non-empty retrieval response
NullPayloadPart ==
  \/ \E i \in 1..Len(events) : \E j \in 1..Len(events[i].parts) :
       events[i].parts[j].hasText /\ events[i].parts[j].textNone
  \/ \E i \in 1..Len(events) : \E j \in 1..Len(events[i].parts) :
       /\ events[i].parts[j].hasFR
       /\ events[i].parts[j].frNone
       /\ i > 1
       /\ RecordedResponses(1, i - 1) # {}

\* C23 as claimed: parts without the payload a scan looks for are skipped --
\* when the history holds such a part besides a retrieval response and a
\* matching text, the merge on a state without the two keys still stores
\* that response and the extracted student_info.
NullPartsSkipped ==
  (op = "after" /\ ~Has(pre, "rag_results") /\ ~Has(pre, "student_info")
     /\ NullPayloadPart
     /\ RecordedResponses(1, Len(events)) # {}
     /\ MatchedInfos(1, Len(events)) # {}) =>
    /\ Has(state, "rag_results")
    /\ state["rag_results"] \in RecordedResponses(1, Len(events))
    /\ Has(state, "student_info")
    /\ state["student_info"] \in MatchedInfos(1, Len(events))

ErrorResponseStored ==
  [][ /\ (Has(state, "rag_results") /\ state["rag_results"].status = "error") =>
           (Has(state', "rag_results") /\ state'["rag_results"] = state["rag_results"])
      /\ ( /\ op' = "after"
           /\ ~raised'
           /\ ~Has(state, "rag_results")
           /\ Truthy(ExtractRagResults(events).rag)
           /\ ExtractRagResults(events).rag.status = "error"
           /\ (Has(state, "student_info") \/ ExtractStudentInfo(events).info.found) ) =>
           (Has(state', "rag_results")
              /\ state'["rag_results"] = ExtractRagResults(events).rag) ]_vars

\* C25 witness: the error response was stored by an earlier merge, a later
\* turn recorded the successful two-result response, and after the merge of
\* that turn rag_results is still the error response.
ErrorResponseStoredWitness ==
  /\ op = "after"
  /\ Has(pre, "rag_results")
  /\ pre["rag_results"] = RespErr
  /\ events[Len(events)] = EvRespTwo
  /\ state["rag_results"] = RespErr
  /\ state["rag_results"].status = "error"

\* the responses the history holds for tools other than search_corpus_by_name
OtherToolResponses ==
  UNION {{events[i].parts[j].response :
            j \in {k \in 1..Len(events[i].parts) :
                     /\ events[i].parts[k].hasFR
                     /\ ~events[i].parts[k].frNone
                     /\ events[i].parts[k].name # SearchTool
                     /\ events[i].parts[k].hasResponse}} :
           i \in 1..Len(events)}

\* C26: only a response of search_corpus_by_name becomes rag_results --
\* whatever the merge writes is a response the history holds for that tool,
\* never the response of another tool.
OnlySearchToolStored ==
  WroteRag =>
    /\ state["rag_results"] \in RecordedResponses(1, Len(events))
    /\ state["rag_results"] \notin OtherToolResponses

\* C26 witness: the merge wrote rag_results from an event that carries a
\* load_memory response ahead of the search_corpus_by_name response.
OnlySearchToolStoredWitness ==
  /\ WroteRag
  /\ events[Len(events)] = EvToolsFive
  /\ RespOther \in OtherToolResponses
  /\ state["rag_results"] = RespFive

\* C27: all or nothing -- in a session that starts with an empty
\* session.state and has the callbacks as its only writers, every reachable
\* state holds none of the keys rag_results, student_info, style_selected,
\* current_style or all four of them.
AllOrNothing ==
  DOMAIN state = {} \/ DOMAIN state = StateKeys

\* C27 witness: a merge wrote into the empty state; all four keys are there.
AllOrNothingWitness ==
  /\ op = "after"
  /\ pre = EmptyState
  /\ DOMAIN state = StateKeys
  /\ state["rag_results"] \in RecordedResponses(1, Len(events))

\* C28: with two turns of the session in flight and switches only at
\* awaits, the presence checks and writes of a turn's merge happen in one
\* step on the state as it then is, no step changes or removes a stored key
\* (first write wins), and the one suspension point of a turn, the await of
\* the mirror, lies after its writes: the resumed turn writes nothing.
NoInterleaving ==
  [][ /\ \A k \in DOMAIN state : Has(state', k) /\ state'[k] = state[k]
      /\ \A t \in Turns :
           /\ (pc[t] = "running" /\ pc'[t] # "running") =>
                state' = StoreSessionStateCallback(state, events).state
           /\ (pc[t] = "awaiting" /\ pc'[t] # "awaiting") => state' = state ]_vars

\* C28 witness: one turn is suspended in the mirror while the other ran its
\* merge on a longer history and wrote to session.state.
NoInterleavingWitness ==
  /\ op = "after"
  /\ pc[1] = "awaiting"
  /\ pc[2] = "awaiting"
  /\ state # pre
  /\ Has(state, "rag_results")

\* C29: the callbacks never record a style choice -- in a session that
\* starts with an empty session.state and has the callbacks as its only
\* writers, style_selected is never true and current_style is never
\* anything but None, however many turns are processed.
StyleNeverChosen ==
  /\ Has(state, "style_selected") => state["style_selected"] = FALSE
  /\ Has(state, "current_style") => state["current_style"] = NoStyle

\* C29 witness: a merge initialised the style keys, and a later turn whose
\* history ends with the text of a style request left them as they were.
StyleNeverChosenWitness ==
  /\ op = "after"
  /\ Has(pre, "style_selected")
  /\ events[Len(events)] = EvModelText
  /\ state["style_selected"] = FALSE
  /\ state["current_style"] = NoStyle

\* C30 as claimed: generate_explanation never raises and returns a
\* dictionary; its status is "error" when rag_results is not a mapping, has
\* no results key or has an empty results list, and otherwise "success"
\* with results_count equal to the number of results.
ExplanationTotal ==
  op = "explain" =>
    /\ ~returned.escaped
    /\ "status" \in returned.keys
    /\ IF ~call.rag_results.isMapping \/ ~call.rag_results.hasResults
          \/ call.rag_results.results = <<>>
       THEN returned.status = "error"
       ELSE /\ returned.status = "success"
            /\ "results_count" \in returned.keys
            /\ returned.results_count = Len(call.rag_results.results)

\* the arguments are of the shape the function reads: a mapping with a
\* non-empty results list of mappings whose text, if any, is a string, and
\* a style that is a string
WellFormedCall ==
  /\ call.rag_results.isMapping
  /\ call.rag_results.hasResults
  /\ call.rag_results.results # <<>>
  /\ \A i \in 1..Len(call.rag_results.results) :
       call.rag_results.results[i] \in {"text", "notext"}
  /\ ~call.explanation_style.isNone

\* C30 amended: generate_explanation never raises and returns a dictionary
\* with a status; the status is "success", with results_count the number of
\* results, exactly when the arguments are of the shape the function reads,
\* and "error" for every other input.
ExplanationTotalShaped ==
  op = "explain" =>
    /\ ~returned.escaped
    /\ "status" \in returned.keys
    /\ IF WellFormedCall
       THEN /\ returned.status = "success"
            /\ "results_count" \in returned.keys
            /\ returned.results_count = Len(call.rag_results.results)
       ELSE /\ returned.status = "error"
            /\ "results_count" \notin returned.keys

\* C30 witness: a call whose results list holds an item that is not a
\* mapping returned the error dictionary of the except clause.
ExplanationTotalWitness ==
  /\ op = "explain"
  /\ call.rag_results.isMapping
  /\ call.rag_results.results = <<"text", "nonmapping">>
  /\ ~call.explanation_style.isNone
  /\ returned.status = "error"
  /\ "error_message" \in returned.keys

====
